---------------------------- MODULE Spec2Model ----------------------------
(***************************************************************************)
(* Model of train_agent.py: the training driver main(), the step hook,     *)
(* the log handler TensorBoardEvaluationLoggingHandler that turns log      *)
(* lines into TensorBoard scalars, and the evaluation loop                 *)
(* run_localization_evaluation_episodes.                                   *)
(*                                                                         *)
(* Numbers are fixed-point with one decimal digit: the integer v stands    *)
(* for v/10.  A Python value is [ty, v] with ty its numeric type.  A text  *)
(* is a sequence of one-character strings, a log message a sequence of     *)
(* space-separated words.                                                  *)
(***************************************************************************)
EXTENDS Integers, Sequences, FiniteSets, TLC

\* max_episode_len = None: no cap.  The loop compares the step count t >= 0 with
\* it by ==, which None never satisfies, and neither does -1.
None == -1

(***************************************************************************)
(* Bounds of the model.                                                    *)
(***************************************************************************)
MaxEpisodes == 2     \* small values of CONFIG['eval_n_episodes'] (besides 10, 11)
MaxLen == 2          \* CONFIG['train_max_episode_len'] ranges over None, 0..MaxLen
MaxSteps == 2        \* CONFIG['steps'] is 0 or MaxSteps
MaxRecords == 2      \* log records of other origin than the evaluation loop
MaxVariety == 1      \* environment steps with a non-default outcome, per run

(***************************************************************************)
(* Python numbers and their texts.                                         *)
(***************************************************************************)
Abs(n) == IF n < 0 THEN -n ELSE n

Digits == <<"0", "1", "2", "3", "4", "5", "6", "7", "8", "9">>

DigitChar(d) == Digits[d + 1]

IsDigit(c) == \E d \in 1..10 : Digits[d] = c

DigitVal(c) == (CHOOSE d \in 1..10 : Digits[d] = c) - 1

RECURSIVE FormatNat(_)
\* str() of a non-negative int: its decimal digits.
FormatNat(n) ==
    IF n < 10 THEN <<DigitChar(n)>>
    ELSE FormatNat(n \div 10) \o <<DigitChar(n % 10)>>

\* str() of an int n.
FormatInt(n) == IF n < 0 THEN <<"-">> \o FormatNat(-n) ELSE FormatNat(n)

\* str() of a float (or numpy float64) of v tenths: "-0.5", "1.0", "12.3".
FormatFloat(v) ==
    (IF v < 0 THEN <<"-">> ELSE <<>>)
        \o FormatNat(Abs(v) \div 10) \o <<".">> \o <<DigitChar(Abs(v) % 10)>>

PyInt(n) == [ty |-> "int", v |-> 10 * n]
PyFloat(v) == [ty |-> "float", v |-> v]
NpFloat(v) == [ty |-> "np.float64", v |-> v]

\* '%s' % x
Str(x) == IF x.ty = "int" THEN FormatInt(x.v \div 10) ELSE FormatFloat(x.v)

\* float(x): a plain float of the same value.
ToFloat(x) == PyFloat(x.v)

\* x + y: int + int is an int, a numpy operand makes a numpy float.
Add(x, y) ==
    [ty |-> IF "np.float64" \in {x.ty, y.ty} THEN "np.float64"
            ELSE IF "float" \in {x.ty, y.ty} THEN "float" ELSE "int",
     v |-> x.v + y.v]

ValueError == "ValueError"
IndexError == "IndexError"

\* The outcome of a conversion: the number, or the exception raised.
Ok(n) == [ok |-> TRUE, val |-> n]
Raises(e) == [ok |-> FALSE, exc |-> e]

AllDigits(s) == Len(s) > 0 /\ \A k \in 1..Len(s) : IsDigit(s[k])

RECURSIVE NatOf(_)
NatOf(s) ==
    IF s = <<>> THEN 0
    ELSE 10 * NatOf(SubSeq(s, 1, Len(s) - 1)) + DigitVal(s[Len(s)])

Unsigned(s) == IF s # <<>> /\ s[1] \in {"-", "+"} THEN Tail(s) ELSE s

Sign(s) == IF s # <<>> /\ s[1] = "-" THEN -1 ELSE 1

\* int(s): an optional sign and decimal digits, anything else raises ValueError.
\* The result is the integer itself.
ParseInt(s) ==
    IF AllDigits(Unsigned(s)) THEN Ok(Sign(s) * NatOf(Unsigned(s)))
    ELSE Raises(ValueError)

PointAt(s) == {k \in 1..Len(s) : s[k] = "."}

\* float(s), in tenths: an optional sign, digits, and optionally a point and
\* (on texts of this resolution) at most one fractional digit; anything else
\* raises ValueError.
ParseFloat(s) ==
    LET u == Unsigned(s)
        p == PointAt(u)
    IN  IF p = {}
        THEN IF AllDigits(u) THEN Ok(Sign(s) * 10 * NatOf(u))
             ELSE Raises(ValueError)
        ELSE LET k == CHOOSE k \in p : TRUE
                 ip == SubSeq(u, 1, k - 1)
                 fp == SubSeq(u, k + 1, Len(u))
             IN  IF /\ Cardinality(p) = 1
                    /\ ip = <<>> \/ AllDigits(ip)
                    /\ fp = <<>> \/ (AllDigits(fp) /\ Len(fp) = 1)
                    /\ ip # <<>> \/ fp # <<>>
                 THEN Ok(Sign(s) * (10 * NatOf(ip) + NatOf(fp)))
                 ELSE Raises(ValueError)

(***************************************************************************)
(* Log messages and the two regular expressions of emit.  A word is        *)
(* [pre, txt]: a literal prefix (possibly "") followed by a text.  The     *)
(* patterns are matched word by word: a literal word of a pattern matches  *)
(* that word, a group of non-space characters the rest of its word.       *)
(***************************************************************************)
Lit(s) == [pre |-> s, txt |-> <<>>]
Field(s, t) == [pre |-> s, txt |-> t]

\* The characters of a word, its prefix counted as one (non-numeric) symbol.
WordText(w) == IF w.pre = "" THEN w.txt ELSE <<w.pre>> \o w.txt

\* A pattern element: a literal word, or a group ([^ ]*) after a literal prefix.
PLit(s) == [pre |-> s, grp |-> FALSE]
PGrp(s) == [pre |-> s, grp |-> TRUE]

ElemMatches(e, w) ==
    IF e.grp THEN e.pre = "" \/ w.pre = e.pre ELSE w = Lit(e.pre)

ElemGroup(e, w) == IF e.pre = "" THEN WordText(w) ELSE w.txt

MatchesAt(pat, msg, p) ==
    /\ p + Len(pat) - 1 <= Len(msg)
    /\ \A k \in 1..Len(pat) : ElemMatches(pat[k], msg[p + k - 1])

RECURSIVE GroupsFrom(_, _, _, _)
GroupsFrom(pat, msg, p, k) ==
    IF k > Len(pat) THEN <<>>
    ELSE (IF pat[k].grp THEN <<ElemGroup(pat[k], msg[p + k - 1])>> ELSE <<>>)
             \o GroupsFrom(pat, msg, p, k + 1)

\* re.search(pat, msg): whether there is a match, and the groups of the
\* leftmost one.
Search(pat, msg) ==
    LET ps == {p \in 1..Len(msg) : MatchesAt(pat, msg, p)}
    IN  IF ps = {} THEN [found |-> FALSE, group |-> <<>>]
        ELSE LET p == CHOOSE p \in ps : \A q \in ps : p <= q
             IN  [found |-> TRUE, group |-> GroupsFrom(pat, msg, p, 1)]

\* r'The best score is updated ([^ ]*) -> ([^ ]*)'
NewBestPattern ==
    <<PLit("The"), PLit("best"), PLit("score"), PLit("is"), PLit("updated"),
      PGrp(""), PLit("->"), PGrp("")>>

\* r'evaluation episode ([^ ]*) length:([^ ]*) R:([^ ]*) IoU:([^ ]*) Max_IoU:([^ ]*)'
EpisodePattern ==
    <<PLit("evaluation"), PLit("episode"), PGrp(""), PGrp("length:"),
      PGrp("R:"), PGrp("IoU:"), PGrp("Max_IoU:")>>

\* 'The best score is updated %s -> %s' with texts a and b.
NewBestLine(a, b) ==
    <<Lit("The"), Lit("best"), Lit("score"), Lit("is"), Lit("updated"),
      Field("", a), Lit("->"), Field("", b)>>

\* 'evaluation episode %s length:%s R:%s IoU:%s Max_IoU:%s' with five texts.
EpisodeLine(i, l, r, iou, miou) ==
    <<Lit("evaluation"), Lit("episode"), Field("", i), Field("length:", l),
      Field("R:", r), Field("IoU:", iou), Field("Max_IoU:", miou)>>


(***************************************************************************)
(* The state.                                                              *)
(***************************************************************************)
VARIABLES
    CONFIG,        \* the configuration main() reads
    agent,         \* [t, average_q, average_loss]: the agent's readable fields
    saved,         \* the number of agent.save calls
    env,           \* [iou, max_iou]: the environment's IoU-tracking fields
    handler,       \* the TensorBoardEvaluationLoggingHandler main() installs
    pc,            \* the position of the (single) thread of control
    i,             \* run_localization_evaluation_episodes: the episode index
    done,          \*   the environment's last terminal flag
    test_r,        \*   the return accumulated so far
    t,             \*   the number of steps of the episode
    scores,        \*   the list of returns
    max_score,     \* the evaluator's best score so far, as a text
    writer,        \* the scalars the latest emit or hook call added
    last,          \* the latest emit call: its number, message and exception,
                   \*   the handler before it, and whether it wrote a slot
                   \*   already written in the round
    records,       \* the log records of other origin delivered so far
    variety,       \* the non-default environment outcomes still allowed
    trace          \* history of the evaluation round in progress

vars == <<CONFIG, agent, saved, env, handler, pc, i, done, test_r, t, scores,
          max_score, writer, last, records, variety, trace>>

\* eval_run_count = 10 in main().
eval_run_count == 10

(***************************************************************************)
(* TensorBoardEvaluationLoggingHandler.                                    *)
(***************************************************************************)
\* np.empty(n): n float slots whose content is whatever the memory held; g is
\* that content.
NpEmpty(n, g) == [k \in 0..(n - 1) |-> g]

\* __init__(summary_writer, agent, eval_run_count)
HandlerInit(n, g) ==
    [eval_run_count |-> n,
     episode_rewards |-> NpEmpty(n, g),
     episode_lengths |-> NpEmpty(n, g),
     episode_ious |-> NpEmpty(n, g),
     episode_max_ious |-> NpEmpty(n, g)]

Scalar(name, value, step) == [name |-> name, value |-> value, step |-> step]

\* A scalar value computed by numpy: the fraction num/den, in tenths
\* (hundredths for a variance).
Frac(n, d) == [num |-> n, den |-> d]

\* A scalar value handed over as the text matched in the log message.
Text(s) == [text |-> s]

RECURSIVE SumTo(_, _)
\* a[0] + ... + a[k]
SumTo(a, k) == IF k < 0 THEN 0 ELSE a[k] + SumTo(a, k - 1)

Size(a) == Cardinality(DOMAIN a)

NpSum(a) == SumTo(a, Size(a) - 1)

\* The k-th smallest element of a (k from 0).
Sorted(a, k) ==
    CHOOSE x \in {a[j] : j \in DOMAIN a} :
        /\ Cardinality({j \in DOMAIN a : a[j] < x}) <= k
        /\ Cardinality({j \in DOMAIN a : a[j] <= x}) > k

NpMean(a) == Frac(NpSum(a), Size(a))

NpMedian(a) ==
    LET n == Size(a)
    IN  IF n % 2 = 1 THEN Frac(Sorted(a, n \div 2), 1)
        ELSE Frac(Sorted(a, n \div 2 - 1) + Sorted(a, n \div 2), 2)

\* The sample variance (ddof = 1).
NpVarSample(a) ==
    LET n == Size(a)
        sq == [j \in DOMAIN a |-> a[j] * a[j]]
    IN  Frac(n * NpSum(sq) - NpSum(a) * NpSum(a), n * (n - 1))

\* The population variance: mean(x^2) - mean(x)^2.
NpVar(a) ==
    LET n == Size(a)
        sq == [j \in DOMAIN a |-> a[j] * a[j]]
    IN  Frac(n * NpSum(sq) - NpSum(a) * NpSum(a), n * n)

\* An evaluation-local counter: the episodes logged so far in the round.
StepCountLocal == Len(trace.lines)

\* step_count = self.agent.t

StepCount == agent.t

\* a[k] = x on a numpy array of n slots: a negative k counts from the end, a
\* k outside -n..n-1 raises IndexError.
InRangeNonNegative(n, k) == 0 <= k /\ k < n

\* An index numpy accepts for an array of n elements.
InRange(n, k) == -n <= k /\ k < n

Slot(n, k) == IF k < 0 THEN k + n ELSE k

StoreSwapped(h, k, l, r, iou, miou) ==
    LET s == Slot(h.eval_run_count, k)
    IN  [h EXCEPT !.episode_lengths[s] = l, !.episode_rewards[s] = r,
                  !.episode_ious[s] = miou, !.episode_max_ious[s] = iou]

\* The four assignments of emit, for an index in range.
Store(h, k, l, r, iou, miou) ==
    LET s == Slot(h.eval_run_count, k)
    IN  [h EXCEPT !.episode_lengths[s] = l, !.episode_rewards[s] = r,
                  !.episode_ious[s] = iou, !.episode_max_ious[s] = miou]

\* The seven add_scalar calls of emit.
Aggregates(h, step) ==
    <<Scalar("evaluation_length_mean", NpMean(h.episode_lengths), step),
      Scalar("evaluation_reward_mean", NpMean(h.episode_rewards), step),
      Scalar("evaluation_reward_median", NpMedian(h.episode_rewards), step),
      Scalar("evaluation_reward_variance", NpVar(h.episode_rewards), step),
      Scalar("evaluation_iou_mean", NpMean(h.episode_ious), step),
      Scalar("evaluation_iou_median", NpMedian(h.episode_ious), step),
      Scalar("evaluation_max_iou_mean", NpMean(h.episode_max_ious), step)>>

\* The first conversion of the five that raises, if any.
FirstError(cs) ==
    LET bad == {k \in 1..Len(cs) : ~cs[k].ok}
    IN  IF bad = {} THEN "none"
        ELSE cs[CHOOSE k \in bad : \A j \in bad : k <= j].exc

IsLastButOneEpisode(h, episode_number) == episode_number = h.eval_run_count - 2

\* The flush condition of emit.
IsLastEpisode(h, episode_number) == episode_number = h.eval_run_count - 1

EmitNewBestOld(msg) ==
    LET match_new_best == Search(NewBestPattern, msg)
    IN  IF match_new_best.found
        THEN <<Scalar("evaluation_new_best_score",
                      Text(match_new_best.group[1]), StepCount)>>
        ELSE <<>>

\* The first half of emit: the new-best pattern.
EmitNewBest(msg) ==
    LET match_new_best == Search(NewBestPattern, msg)
    IN  IF match_new_best.found
        THEN <<Scalar("evaluation_new_best_score",
                      Text(match_new_best.group[2]), StepCount)>>
        ELSE <<>>

\* emit(record) on handler h: the handler afterwards, the scalars added to the
\* summary writer, and the exception raised ("none" if it returns).
Emit(h, msg) ==
    LET out1 == EmitNewBest(msg)
        match_reward == Search(EpisodePattern, msg)
        g == match_reward.group
        cs == <<ParseInt(g[1]), ParseInt(g[2]), ParseFloat(g[3]),
                ParseFloat(g[4]), ParseFloat(g[5])>>
    IN  IF ~match_reward.found
        THEN [h |-> h, out |-> out1, raised |-> "none"]
        ELSE IF FirstError(cs) # "none"
        THEN [h |-> h, out |-> out1, raised |-> FirstError(cs)]
        ELSE IF ~InRange(h.eval_run_count, cs[1].val)
        THEN [h |-> h, out |-> out1, raised |-> IndexError]
        ELSE LET episode_number == cs[1].val
                 h2 == Store(h, episode_number, 10 * cs[2].val, cs[3].val,
                             cs[4].val, cs[5].val)
             IN  [h |-> h2,
                  out |-> out1 \o (IF IsLastEpisode(h2, episode_number)
                                   THEN Aggregates(h2, StepCount) ELSE <<>>),
                  raised |-> "none"]


(***************************************************************************)
(* The collaborators: the environment, the agent and the training library. *)
(***************************************************************************)
\* What env.step may return: the reward, the terminal flag and the new IoU.
DefaultOutcome == [r |-> PyInt(1), done |-> TRUE, iou |-> NpFloat(3)]

Outcomes ==
    {DefaultOutcome,
     [r |-> NpFloat(-5), done |-> FALSE, iou |-> NpFloat(8)],
     [r |-> PyFloat(25), done |-> TRUE, iou |-> NpFloat(10)]}

\* env.reset()
EnvReset == [iou |-> NpFloat(0), max_iou |-> NpFloat(0)]

\* env.step(a) with outcome o: iou is the new IoU, max_iou the best so far.
EnvStep(e, o) ==
    [iou |-> o.iou,
     max_iou |-> IF o.iou.v > e.max_iou.v THEN o.iou ELSE e.max_iou]

\* agent.act_and_train: one training step of the agent, which moves its
\* running averages.
AgentTrain(a) ==
    [t |-> a.t + 1,
     average_q |-> PyFloat(a.average_q.v + 12),
     average_loss |-> PyFloat(a.average_loss.v + 3)]

\* agent.act(obs) during evaluation: the greedy action, no learning.
AgentActLearning(a) == [a EXCEPT !.t = a.t + 1]

AgentAct(a) == a

\* agent.stop_episode()
AgentStopEpisode(a) == a

(***************************************************************************)
(* TensorBoardLoggingStepHook.__call__(env, agent, step)                   *)
(***************************************************************************)
StepHookNextStep(a) ==
    <<Scalar("average_q", a.average_q, a.t + 1),
      Scalar("average_loss", a.average_loss, a.t + 1)>>

StepHook(a) ==
    <<Scalar("average_q", a.average_q, a.t),
      Scalar("average_loss", a.average_loss, a.t)>>

(***************************************************************************)
(* Logging: a record logged on the root logger reaches the handler, in the *)
(* caller's thread, when main() installed it; an exception of emit         *)
(* propagates to the caller of logger.info.                                *)
(***************************************************************************)
IsBurst(out) == \E k \in 1..Len(out) : out[k].name = "evaluation_length_mean"

EmptyTrace(a) ==
    [startT |-> a.t,         \* agent.t when the round was triggered
     agent0 |-> a,           \* the agent when the round was triggered
     scalars |-> {},         \* <<name, step>> of the scalars of the round
     bursts |-> 0,           \* aggregate bursts of the round
     calls |-> {},           \* agent operations called in the round
     op |-> "none",          \* the latest agent/environment operation
     stops |-> 0,            \* stop_episode calls since the latest reset
     resets |-> 0,           \* env.reset calls of the round
     rewards |-> <<>>,       \* the rewards of the steps of the episode
     steps |-> 0,            \* env.step calls of the round
     late |-> FALSE,         \* a step was taken after a terminal signal or the cap
     slots |-> {},           \* the buffer slots emit has written in the round
     lines |-> <<>>,         \* the episode indices logged in the round
     line |-> <<>>]          \* the latest line logged by the round

Logged(msg) == IF CONFIG.use_tensorboard
               THEN Emit(handler, msg)
               ELSE [h |-> handler, out |-> <<>>, raised |-> "none"]

\* The buffer slot the handler writes on msg, if it writes one.
StoredSlot(msg) ==
    LET m == Search(EpisodePattern, msg)
    IN  IF CONFIG.use_tensorboard /\ m.found /\ Logged(msg).raised = "none"
        THEN {Slot(handler.eval_run_count, ParseInt(m.group[1]).val)}
        ELSE {}

\* logger.info(msg): the handler's part, and where control goes.
Log(msg, next) ==
    LET res == Logged(msg)
    IN  /\ handler' = res.h
        /\ writer' = res.out
        /\ last' = IF CONFIG.use_tensorboard
                   THEN [n |-> last.n + 1, msg |-> msg, raised |-> res.raised,
                         before |-> handler,
                         dup |-> StoredSlot(msg) \cap trace.slots # {}]
                   ELSE last
        /\ pc' = IF res.raised = "none" THEN next ELSE "aborted"

TraceLogged(tr, msg) ==
    LET out == Logged(msg).out
    IN  [tr EXCEPT !.scalars = @ \cup {<<out[k].name, out[k].step>> : k \in 1..Len(out)},
                   !.bursts = @ + (IF IsBurst(out) THEN 1 ELSE 0),
                   !.slots = @ \cup StoredSlot(msg)]

(***************************************************************************)
(* run_localization_evaluation_episodes(env, agent, n_steps, n_episodes,   *)
(*                                      max_episode_len, logger)           *)
(***************************************************************************)
n_episodes == CONFIG.eval_n_episodes
max_episode_len == CONFIG.train_max_episode_len

\* for i in range(n_episodes): obs = env.reset(); done = False; test_r = 0; t = 0
EvalReset ==
    /\ pc = "for"
    /\ i < n_episodes
    /\ env' = EnvReset
    /\ done' = FALSE
    /\ test_r' = PyInt(0)
    /\ t' = 0
    /\ pc' = "while"
    /\ trace' = [trace EXCEPT !.op = "reset", !.stops = 0, !.resets = @ + 1,
                              !.rewards = <<>>]
    /\ UNCHANGED <<CONFIG, agent, saved, handler, i, scores, max_score, writer,
                   last, records, variety>>

LoopContinuesPastCap == ~(done \/ t = max_episode_len + 1)

\* while not (done or t == max_episode_len)
LoopContinues == ~(done \/ t = max_episode_len)

\* a = agent.act(obs); obs, r, done, info = env.step(a); test_r += r; t += 1
EvalStep ==
    /\ pc = "while"
    /\ LoopContinues
    /\ \E o \in Outcomes :
        /\ o # DefaultOutcome => variety > 0
        /\ variety' = IF o = DefaultOutcome THEN variety ELSE variety - 1
        /\ agent' = AgentAct(agent)
        /\ env' = EnvStep(env, o)
        /\ done' = o.done
        /\ test_r' = Add(test_r, o.r)
        /\ trace' = [trace EXCEPT !.op = "step", !.calls = @ \cup {"act"},
                                  !.rewards = Append(@, o.r),
                                  !.steps = @ + 1,
                                  !.late = @ \/ done \/ t = max_episode_len]
    /\ t' = t + 1
    /\ UNCHANGED <<CONFIG, saved, handler, pc, i, scores, max_score, writer,
                   last, records>>

\* iou = float(env.iou) if done else float(0)
ReportedIouAlways(d, e) == ToFloat(e.iou)

ReportedIou(d, e) == IF d THEN ToFloat(e.iou) ELSE ToFloat(PyInt(0))

\* logger.info('evaluation episode %s length:%s R:%s IoU:%s Max_IoU:%s',
\*             i, t, test_r, iou, max_iou)
\* The return as logger.info receives it: test_r itself, not float(test_r).
LoggedReturn(ret) == ret

EpisodeMessage(k, len, ret, iou, max_iou) ==
    EpisodeLine(Str(PyInt(k)), Str(PyInt(len)), Str(LoggedReturn(ret)), Str(iou),
                Str(max_iou))

\* The agent.stop_episode() call after the loop.
StopsAfterLoopIfDone(d) == IF d THEN 1 ELSE 0

StopsAfterLoop(d) == 1

\* The rest of the loop body, after the while loop.
EvalFinish ==
    /\ pc = "while"
    /\ ~LoopContinues
    /\ LET iou == ReportedIou(done, env)
           max_iou == ToFloat(env.max_iou)
           msg == EpisodeMessage(i, t, test_r, iou, max_iou)
           n == StopsAfterLoop(done)
       IN  /\ agent' = (IF n > 0 THEN AgentStopEpisode(agent) ELSE agent)
           /\ scores' = Append(scores, ToFloat(test_r))
           /\ Log(msg, "for")
           /\ trace' = [TraceLogged(trace, msg) EXCEPT
                           !.op = IF n > 0 THEN "stop_episode" ELSE @,
                           !.stops = @ + n,
                           !.calls = @ \cup (IF n > 0 THEN {"stop_episode"} ELSE {}),
                           !.lines = Append(@, i),
                           !.line = msg]
    /\ i' = i + 1
    /\ UNCHANGED <<CONFIG, saved, env, done, test_r, t, max_score, records, variety>>

\* return scores
EvalReturn ==
    /\ pc = "for"
    /\ i >= n_episodes
    /\ pc' = "returned"
    /\ UNCHANGED <<CONFIG, agent, saved, env, handler, i, done, test_r, t, scores,
                   max_score, writer, last, records, variety, trace>>

(***************************************************************************)
(* train_agent_with_evaluation, as main() calls it, and the end of main(). *)
(* The evaluation rounds are those of run_localization_evaluation_episodes *)
(* (the override of line 93), run with the logger and the episode count    *)
(* and length cap main() passes.                                           *)
(***************************************************************************)
RECURSIVE SumScores(_)
SumScores(ss) == IF ss = <<>> THEN 0 ELSE Head(ss).v + SumScores(Tail(ss))

\* The mean score of a round (to the tenth).
MeanScore(ss) == SumScores(ss) \div Len(ss)

LowestScore == <<"-", "3", ".", "4", "e", "+", "3", "8">>

\* After a training step and its hooks: an evaluation round starts when the
\* step count is a multiple of eval_interval.
AfterStep ==
    IF agent'.t % CONFIG.eval_interval = 0
    THEN /\ pc' = "for"
         /\ i' = 0
         /\ scores' = <<>>
         /\ trace' = EmptyTrace(agent')
    ELSE /\ pc' = "train"
         /\ UNCHANGED <<i, scores, trace>>

\* One training step: the agent acts and learns, the environment steps; the
\* step hooks main() passed run after it.
TrainStep ==
    /\ pc = "train"
    /\ agent.t < CONFIG.steps
    /\ agent' = AgentTrain(agent)
    /\ IF CONFIG.use_tensorboard
       THEN pc' = "hook" /\ UNCHANGED <<i, scores, trace>>
       ELSE AfterStep
    /\ UNCHANGED <<CONFIG, saved, env, handler, done, test_r, t, max_score, writer,
                   last, records, variety>>

\* step_hooks = [TensorBoardLoggingStepHook(writer)]: the call of the hook.
Hook ==
    /\ pc = "hook"
    /\ writer' = StepHook(agent)
    /\ agent' = agent
    /\ AfterStep
    /\ UNCHANGED <<CONFIG, saved, env, handler, done, test_r, t, max_score, last,
                   records, variety>>

SavedOnFailureFinally(n) == n + 1

\* main() has no try/finally around the training call: nothing is saved when
\* it raises.
SavedOnFailure(n) == n

\* The environment or the agent raises, in training or in evaluation: the
\* exception leaves train_agent_with_evaluation and main().
Fails ==
    /\ \/ pc = "train" /\ agent.t < CONFIG.steps
       \/ pc = "for" /\ i < n_episodes
       \/ pc = "while"
    /\ variety > 0
    /\ variety' = variety - 1
    /\ pc' = IF pc = "train" THEN "failed" ELSE "aborted"
    /\ saved' = SavedOnFailure(saved)
    /\ trace' = [trace EXCEPT !.op = "raise"]
    /\ UNCHANGED <<CONFIG, agent, env, handler, i, done, test_r, t, scores,
                   max_score, writer, last, records>>

\* The evaluator's bookkeeping after a round: a better mean score is logged
\* as 'The best score is updated %s -> %s'.
RecordScore ==
    /\ pc = "returned"
    /\ LET mean == MeanScore(scores)
           better == ~max_score.set \/ mean > max_score.v
           msg == NewBestLine(IF max_score.set THEN FormatFloat(max_score.v)
                              ELSE LowestScore,
                              FormatFloat(mean))
       IN  IF better
           THEN /\ max_score' = [set |-> TRUE, v |-> mean]
                /\ Log(msg, "train")
                /\ trace' = TraceLogged(trace, msg)
           ELSE /\ pc' = "train"
                /\ UNCHANGED <<max_score, handler, writer, last, trace>>
    /\ UNCHANGED <<CONFIG, agent, saved, env, i, done, test_r, t, scores, records,
                   variety>>

SaveCallsIfTrained(steps) == IF steps > 0 THEN 1 ELSE 0

\* The agent.save calls of main() once the training call has returned.
SaveCalls(steps) == 1

\* agent.save('agent_' + timestr + "_" + agentClassName), after the training
\* loop returned.
Save ==
    /\ pc = "train"
    /\ agent.t >= CONFIG.steps
    /\ saved' = saved + SaveCalls(CONFIG.steps)
    /\ pc' = "done"
    /\ UNCHANGED <<CONFIG, agent, env, handler, i, done, test_r, t, scores,
                   max_score, writer, last, records, variety, trace>>

\* The content np.empty may leave in the handler's buffers.
Garbage == {0, 70}

\* handler = TensorBoardEvaluationLoggingHandler(writer, agent, eval_run_count)
MainHandler(g) == HandlerInit(eval_run_count, g)

Configs ==
    [eval_n_episodes : (1..MaxEpisodes) \cup {eval_run_count, eval_run_count + 1},
     train_max_episode_len : {None} \cup (0..MaxLen),
     steps : {0, MaxSteps},
     eval_interval : {MaxSteps - 1, MaxSteps},
     use_tensorboard : BOOLEAN]

\* The state when main() calls train_agent_with_evaluation.
Init ==
    /\ CONFIG \in Configs
    /\ agent = [t |-> 0, average_q |-> PyFloat(0), average_loss |-> PyFloat(0)]
    /\ saved = 0
    /\ env = EnvReset
    /\ \E g \in Garbage :
          /\ CONFIG.use_tensorboard \/ g = 0
          /\ handler = MainHandler(g)
    /\ pc = "train"
    /\ i = 0
    /\ done = FALSE
    /\ test_r = PyInt(0)
    /\ t = 0
    /\ scores = <<>>
    /\ max_score = [set |-> FALSE, v |-> 0]
    /\ writer = <<>>
    /\ last = [n |-> 0, msg |-> <<>>, raised |-> "none", before |-> handler,
               dup |-> FALSE]
    /\ records = 0
    /\ variety = MaxVariety
    /\ trace = EmptyTrace(agent)

Next ==
    \/ TrainStep
    \/ EvalReset
    \/ EvalStep
    \/ EvalFinish
    \/ EvalReturn
    \/ RecordScore
    \/ Save
    \/ Hook
    \/ Fails

Spec == Init /\ [][Next]_vars


(***************************************************************************)
(* The handler on its own: log records of any content reach emit, between  *)
(* two training steps, in any order.                                       *)
(***************************************************************************)
\* The episode results a well-formed line may carry.
EpisodeInputs ==
    [i : {0, 1, eval_run_count - 1}, l : {1, 2}, r : {PyInt(3), NpFloat(-5)},
     iou : {PyFloat(0)}, miou : {PyFloat(8)}]
    \cup
    [i : {0, eval_run_count - 1}, l : {12}, r : {PyFloat(45)},
     iou : {PyFloat(8), PyFloat(9)}, miou : {PyFloat(9)}]

WellFormedLine(x) == EpisodeMessage(x.i, x.l, x.r, x.iou, x.miou)

\* Episode lines with an index outside 0..eval_run_count-1.
OutOfRangeIndices == {-1, -eval_run_count - 1, eval_run_count}

OutOfRangeLine(k) == EpisodeMessage(k, 1, PyInt(3), PyFloat(0), PyFloat(8))

OutOfRangeLines == {OutOfRangeLine(k) : k \in OutOfRangeIndices}

NotANumber == <<"a", "b", "c">>

\* Lines of the episode shape with a field that is no number of its type.
MalformedLines ==
    {EpisodeLine(NotANumber, FormatInt(1), FormatFloat(10), FormatFloat(0), FormatFloat(8)),
     EpisodeLine(FormatInt(0), FormatFloat(10), FormatFloat(10), FormatFloat(0), FormatFloat(8)),
     EpisodeLine(FormatInt(9), FormatInt(1), NotANumber, FormatFloat(0), FormatFloat(8)),
     EpisodeLine(FormatInt(0), FormatInt(1), FormatFloat(10), <<>>, FormatFloat(8)),
     EpisodeLine(FormatInt(9), FormatInt(1), FormatFloat(10), FormatFloat(0), <<"1", ".", "2", ".", "3">>)}

\* Lines that match neither pattern.
UnrelatedLines ==
    {<<Lit("statistics")>>,
     <<Lit("evaluation"), Lit("episode"), Field("", FormatInt(9)),
       Field("length:", FormatInt(1)), Field("R:", FormatFloat(10))>>,
     <<Lit("The"), Lit("best"), Lit("score"), Lit("is"), Field("", FormatFloat(10))>>}

\* The scores a new-best line may carry: (old, new).
NewBestInputs == {<<PyFloat(100), PyFloat(125)>>, <<NpFloat(-5), PyFloat(10)>>}

NewBestMessage(x) == NewBestLine(Str(x[1]), Str(x[2]))

\* Messages that hold both patterns.
BothLines ==
    {NewBestMessage(x) \o WellFormedLine(y) :
        x \in {<<PyFloat(100), PyFloat(125)>>},
        y \in {e \in EpisodeInputs : e.l = 2 /\ e.r = PyInt(3)}}
    \cup {NewBestMessage(<<PyFloat(100), PyFloat(125)>>)
             \o EpisodeLine(NotANumber, FormatInt(1), FormatFloat(10),
                            FormatFloat(0), FormatFloat(8))}

Messages ==
    {WellFormedLine(x) : x \in EpisodeInputs} \cup OutOfRangeLines
        \cup MalformedLines \cup UnrelatedLines
        \cup {NewBestMessage(x) : x \in NewBestInputs}
        \cup {NewBestLine(LowestScore, FormatFloat(10))} \cup BothLines

\* logging.getLogger().info(m) by any caller.
LogRecord(m) ==
    /\ pc = "train"
    /\ CONFIG.use_tensorboard
    /\ records < MaxRecords
    /\ records' = records + 1
    /\ Log(m, "train")
    /\ trace' = TraceLogged(trace, m)
    /\ UNCHANGED <<CONFIG, agent, saved, env, i, done, test_r, t, scores,
                   max_score, variety>>

RECURSIVE AgentAfter(_)
\* The agent after k training steps.
AgentAfter(k) ==
    IF k = 0 THEN [t |-> 0, average_q |-> PyFloat(0), average_loss |-> PyFloat(0)]
    ELSE AgentTrain(AgentAfter(k - 1))

\* main() with use_tensorboard, at some training step.
InitHandler ==
    /\ CONFIG \in {c \in Configs : /\ c.use_tensorboard
                                  /\ c.eval_n_episodes = eval_run_count
                                  /\ c.train_max_episode_len = None
                                  /\ c.steps = MaxSteps
                                  /\ c.eval_interval = MaxSteps}
    /\ \E k \in 0..MaxSteps : agent = AgentAfter(k)
    /\ saved = 0
    /\ env = EnvReset
    /\ \E g \in Garbage : handler = MainHandler(g)
    /\ pc = "train"
    /\ i = 0
    /\ done = FALSE
    /\ test_r = PyInt(0)
    /\ t = 0
    /\ scores = <<>>
    /\ max_score = [set |-> FALSE, v |-> 0]
    /\ writer = <<>>
    /\ last = [n |-> 0, msg |-> <<>>, raised |-> "none", before |-> handler,
               dup |-> FALSE]
    /\ records = 0
    /\ variety = MaxVariety
    /\ trace = EmptyTrace(agent)

NextHandler == \E m \in Messages : LogRecord(m)

SpecHandler == InitHandler /\ [][NextHandler]_vars


(***************************************************************************)
(* Properties.                                                             *)
(***************************************************************************)
InRound == pc \in {"for", "while", "returned", "aborted"} /\ trace.resets > 0

\* An episode of the round has finished and the next has not been reset.
AfterEpisode ==
    /\ InRound /\ pc # "while"
    /\ Len(trace.lines) > 0 /\ Len(trace.lines) = trace.resets
    /\ trace.op # "raise"

Range(q) == {q[k] : k \in 1..Len(q)}

\* The fields an episode line reports, read back from its text.
Reported(line) ==
    LET g == Search(EpisodePattern, line).group
    IN  [index |-> ParseInt(g[1]), length |-> ParseInt(g[2]),
         reward |-> ParseFloat(g[3]), iou |-> ParseFloat(g[4]),
         max_iou |-> ParseFloat(g[5])]

\* C1: in every evaluation round of n_episodes = K episodes, the handler has
\* emitted exactly one aggregate burst once the line of episode K-1 has been
\* processed, and none before.
C1_OneBurstPerRound ==
    (CONFIG.use_tensorboard /\ InRound /\ pc # "aborted") =>
        trace.bursts = IF (n_episodes - 1) \in Range(trace.lines) THEN 1 ELSE 0

\* C2: the handler main() installs has eval_run_count, and buffers of size,
\* CONFIG['eval_n_episodes'].
C2_SizeIsEvalNEpisodes ==
    CONFIG.use_tensorboard =>
        /\ handler.eval_run_count = CONFIG.eval_n_episodes
        /\ Size(handler.episode_rewards) = CONFIG.eval_n_episodes

\* C3: every scalar the handler emits for one evaluation round, the aggregates
\* and the new best score, carries the agent's step count t of the moment the
\* round was triggered.
C3_RoundScalarsAtTrainingStep ==
    \A s \in trace.scalars : s[2] = trace.startT

\* A round at training step 2 whose 7 aggregates and new best score were
\* emitted (its episodes have indices up to 9 and lengths of 1 or 2).
C3_Witness ==
    /\ Cardinality(trace.scalars) = 8
    /\ trace.startT = 2
    /\ pc = "train"

\* C4: a message that matches neither pattern, or has the episode shape and a
\* field that is no number, makes emit raise nothing, emit nothing and leave
\* the buffers as they were.
C4_UnmatchedOrMalformedIsSilent ==
    (last.n > 0 /\ last.msg \in (UnrelatedLines \cup MalformedLines)) =>
        /\ last.raised = "none"
        /\ writer = <<>>
        /\ handler = last.before

\* C5: after emit of a well-formed episode line with index I in
\* 0..eval_run_count-1, slot I of the four buffers holds the line's length,
\* reward, IoU and max IoU, and every other slot is as before.
C5_EpisodeLineStoresAtIndex ==
    \A x \in EpisodeInputs :
        (last.n > 0 /\ last.msg = WellFormedLine(x)
            /\ 0 <= x.i /\ x.i < last.before.eval_run_count) =>
            /\ last.raised = "none"
            /\ handler.episode_lengths[x.i] = 10 * x.l
            /\ handler.episode_rewards[x.i] = x.r.v
            /\ handler.episode_ious[x.i] = x.iou.v
            /\ handler.episode_max_ious[x.i] = x.miou.v
            /\ handler.eval_run_count = last.before.eval_run_count
            /\ \A k \in (DOMAIN handler.episode_rewards) \ {x.i} :
                /\ handler.episode_lengths[k] = last.before.episode_lengths[k]
                /\ handler.episode_rewards[k] = last.before.episode_rewards[k]
                /\ handler.episode_ious[k] = last.before.episode_ious[k]
                /\ handler.episode_max_ious[k] = last.before.episode_max_ious[k]

\* A second well-formed line has been stored, in slot 1, next to the first
\* line's values in another slot.
C5_Witness ==
    /\ last.n = 2
    /\ \E x \in EpisodeInputs : x.i = 1 /\ last.msg = WellFormedLine(x)
    /\ handler.episode_rewards[1] # last.before.episode_rewards[1]
    /\ \E k \in {0, eval_run_count - 1} :
          last.before.episode_lengths[k] \in {10, 20, 120}

\* The (old, new) texts of the new-best lines delivered.
NewBestTexts ==
    {<<Str(x[1]), Str(x[2])>> : x \in NewBestInputs}
        \cup {<<LowestScore, FormatFloat(10)>>}

ContainsNewBest(msg, ab) ==
    \E p \in 1..Len(msg) :
        /\ p + 7 <= Len(msg)
        /\ SubSeq(msg, p, p + 7) = NewBestLine(ab[1], ab[2])

HasEpisodeShape(msg) == \E p \in 1..Len(msg) : MatchesAt(EpisodePattern, msg, p)

NewBestScalars == {k \in 1..Len(writer) : writer[k].name = "evaluation_new_best_score"}

\* Exactly one evaluation_new_best_score scalar was sent, its value the text
\* of B (which reads as the number B), at the agent's training step.
OneNewBestScalar(ab) ==
    /\ Cardinality(NewBestScalars) = 1
    /\ \A k \in NewBestScalars :
        /\ writer[k].value = Text(ab[2])
        /\ writer[k].step = agent.t
    /\ \A x \in NewBestInputs :
        ab = <<Str(x[1]), Str(x[2])>> =>
            \A k \in NewBestScalars : ParseFloat(writer[k].value.text) = Ok(x[2].v)

C7_ReportedIou ==
    AfterEpisode =>
        LET rep == Reported(trace.line)
        IN  /\ rep.max_iou = Ok(env.max_iou.v)
            /\ done => rep.iou = Ok(env.iou.v)
            /\ ~done => /\ t = max_episode_len
                        /\ rep.iou = Ok(0)
                        /\ Search(EpisodePattern, trace.line).group[4] = <<"0", ".", "0">>

\* An episode capped at its first step, not terminal, in an environment whose
\* iou and max_iou are 0.8.
C7_Witness ==
    /\ AfterEpisode
    /\ ~done
    /\ t = 1 /\ max_episode_len = 1
    /\ env.iou.v = 8 /\ env.max_iou.v = 8

RECURSIVE SumValues(_)
SumValues(q) == IF q = <<>> THEN 0 ELSE Head(q).v + SumValues(Tail(q))

\* C8: a round of n_episodes = K returns K results and logs K lines, with the
\* indices 0..K-1 in order; each length is the number of environment steps of
\* the episode and each return the sum of their rewards.
C8_KResultsInOrder ==
    /\ InRound =>
        /\ trace.lines = [k \in 1..Len(trace.lines) |-> k - 1]
        /\ Len(scores) = Len(trace.lines)
        /\ AfterEpisode =>
              /\ t = Len(trace.rewards)
              /\ scores[Len(scores)].v = SumValues(trace.rewards)
              /\ Reported(trace.line).index = Ok(i - 1)
              /\ Reported(trace.line).length = Ok(Len(trace.rewards))
              /\ Reported(trace.line).reward = Ok(SumValues(trace.rewards))
    /\ (InRound /\ pc \notin {"for", "while"} /\ trace.op # "raise") =>
        /\ pc = "returned"
        /\ Len(scores) = n_episodes
        /\ Len(trace.lines) = n_episodes

\* C9: during an evaluation round the agent is as it was when the round was
\* triggered, and the round has called only act and stop_episode on it.
C9_EvaluationDoesNotLearn ==
    InRound =>
        /\ agent = trace.agent0
        /\ agent.t = trace.startT
        /\ trace.calls \subseteq {"act", "stop_episode"}

\* A round triggered at a training step above 0 has returned, after act and
\* stop_episode calls.
C9_Witness ==
    /\ pc = "returned"
    /\ trace.resets > 1
    /\ trace.calls = {"act", "stop_episode"}
    /\ agent.t > 0

\* C10: stop_episode is called exactly once per evaluation episode, after the
\* episode's last environment step and before the next reset, however the
\* episode ended.
C10_StopEpisodeOncePerEpisode ==
    /\ (pc = "while" /\ trace.resets > 0) => trace.stops = 0
    /\ AfterEpisode =>
          /\ trace.stops = 1
          /\ trace.op = "stop_episode"
    /\ InRound => trace.resets \in {Len(trace.lines), Len(trace.lines) + 1}

\* An episode that ended by the length cap, with no terminal signal, has
\* been stopped, and the next one not yet reset.
C10_Witness ==
    /\ pc = "for" /\ i > 0
    /\ ~done /\ t = max_episode_len /\ t >= 1
    /\ trace.stops = 1
    /\ trace.op = "stop_episode"

\* The agent main() builds, before any training step.
FreshAgent == AgentAfter(0)

\* C11: a run with steps = 0 never lets the agent act or the environment step,
\* never calls the training-step hook, so that no average_q or average_loss
\* scalar is emitted, and ends with exactly one agent.save call.
C11_ZeroStepsOnlySaves ==
    CONFIG.steps = 0 =>
        /\ pc \in {"train", "done"}
        /\ agent = FreshAgent
        /\ env = EnvReset
        /\ trace = EmptyTrace(FreshAgent)
        /\ writer = <<>>
        /\ last.n = 0
        /\ saved = IF pc = "done" THEN 1 ELSE 0

\* The end of a run with steps = 0 and the hook installed: the agent saved.
C11_Witness ==
    /\ CONFIG.steps = 0
    /\ CONFIG.use_tensorboard
    /\ pc = "done"
    /\ saved = 1

\* C12: agent.save is called at most once, and only once the training call
\* has returned with all its steps done; a run in which the environment, the
\* agent or the logging handler raised has ended without a save.
C12_SaveOnceAfterNormalReturn ==
    /\ saved \in {0, 1}
    /\ saved = 1 <=> pc = "done"
    /\ pc = "done" => agent.t >= CONFIG.steps
    /\ pc \in {"failed", "aborted"} => saved = 0

\* A failure leaves the run where it is: nothing follows it, no retry and no
\* save.
C12_FailureEndsRun ==
    [][(pc = "failed" \/ pc = "aborted") => UNCHANGED vars]_vars

\* A run whose environment or agent raised inside an evaluation round that
\* followed a training step.
C12_Witness ==
    /\ pc = "aborted"
    /\ trace.op = "raise"
    /\ agent.t > 0
    /\ saved = 0

\* C13: the call of the training-step hook emits exactly the two scalars
\* average_q and average_loss, with the agent's values, at the agent's step
\* count t, and changes neither the agent nor the environment, nor anything
\* else but the writer's output.
C13_HookEmitsTwoScalars ==
    [][pc = "hook" =>
          /\ Len(writer') = 2
          /\ writer'[1] = [name |-> "average_q", value |-> agent.average_q,
                           step |-> agent.t]
          /\ writer'[2] = [name |-> "average_loss", value |-> agent.average_loss,
                           step |-> agent.t]
          /\ UNCHANGED <<agent, env, handler, CONFIG, saved, max_score, last>>]_vars

\* The state before the hook's call after the second training step, where
\* average_q and average_loss differ from each other and from their first
\* values.
C13_Witness ==
    /\ pc = "hook"
    /\ agent.t = 2
    /\ agent.average_q # agent.average_loss

RECURSIVE SumSeq(_)
SumSeq(q) == IF q = <<>> THEN 0 ELSE Head(q) + SumSeq(Tail(q))

RECURSIVE Insert(_, _)
\* The sorted sequence q with x put in its place.
Insert(q, x) ==
    IF q = <<>> THEN <<x>>
    ELSE IF x <= Head(q) THEN <<x>> \o q
    ELSE <<Head(q)>> \o Insert(Tail(q), x)

RECURSIVE Ascending(_)
Ascending(q) == IF q = <<>> THEN <<>> ELSE Insert(Ascending(Tail(q)), Head(q))

RECURSIVE SumSquaredDeviations(_, _, _)
\* The sum over q of (n*x - s)^2: n^2 times the squared deviations from s/n.
SumSquaredDeviations(q, n, s) ==
    IF q = <<>> THEN 0
    ELSE (n * Head(q) - s) * (n * Head(q) - s)
         + SumSquaredDeviations(Tail(q), n, s)

\* Twice the median of the values q.
TwiceMedian(q) ==
    LET n == Len(q)
        sorted == Ascending(q)
    IN  IF n % 2 = 1 THEN 2 * sorted[(n + 1) \div 2]
        ELSE sorted[n \div 2] + sorted[n \div 2 + 1]

\* f is the mean, the median, the population variance of the values q
\* (f and q in tenths, a variance in hundredths).
IsMean(f, q) == f.num * Len(q) = f.den * SumSeq(q)
IsMedian(f, q) == 2 * f.num = f.den * TwiceMedian(q)
IsPopulationVariance(f, q) ==
    LET n == Len(q)
    IN  f.num * n * n * n = f.den * SumSquaredDeviations(q, n, SumSeq(q))

\* The scalar of the name in the burst out.
BurstValue(out, name) == (CHOOSE k \in 1..Len(out) : out[k].name = name)

\* The rewards 1.0 ... 5.0 of a round of five episodes.
OneToFive == [k \in 0..4 |-> 10 * (k + 1)]

C15_ReportedValuesArePlainFloats ==
    AfterEpisode =>
        LET g == Search(EpisodePattern, trace.line).group
        IN  /\ scores[Len(scores)].ty = "float"
            /\ ReportedIou(done, env).ty = "float"
            /\ ToFloat(env.max_iou).ty = "float"
            /\ g[4] = FormatFloat(ReportedIou(done, env).v)
            /\ g[5] = FormatFloat(env.max_iou.v)
            /\ LoggedReturn(test_r).ty = "float"
            /\ g[3] = FormatFloat(test_r.v)

\* Every slot but s of the four buffers is as it was before the latest emit.
OtherSlotsKept(s) ==
    \A k \in (DOMAIN handler.episode_rewards) \ {s} :
        /\ handler.episode_lengths[k] = last.before.episode_lengths[k]
        /\ handler.episode_rewards[k] = last.before.episode_rewards[k]
        /\ handler.episode_ious[k] = last.before.episode_ious[k]
        /\ handler.episode_max_ious[k] = last.before.episode_max_ious[k]

\* The latest emit was given an episode line with an index outside
\* 0..eval_run_count-1, or with an index already written.
OutOfRangeDelivered == last.n > 0 /\ last.msg \in OutOfRangeLines
RepeatDelivered ==
    last.n > 0 /\ last.dup /\ \E x \in EpisodeInputs : last.msg = WellFormedLine(x)

\* C16 as stated: emit of an episode line whose index is out of range or
\* repeats an index already seen raises nothing and does nothing but
\* overwrite buffer slots.
C16_OutOfRangeOrRepeatIsSilent ==
    (OutOfRangeDelivered \/ RepeatDelivered) =>
        /\ last.raised = "none"
        /\ writer = <<>>

\* C16, amended: an index in -eval_run_count..-1 silently overwrites slot
\* index + eval_run_count and nothing else; an index >= eval_run_count or
\* < -eval_run_count raises IndexError and leaves the buffers as they were; a
\* repeated index raises nothing and overwrites its slot, and the repeat of
\* index eval_run_count-1 emits another aggregate burst.
C16_OutOfRangeOrRepeat ==
    LET n == last.before.eval_run_count
    IN  /\ \A k \in OutOfRangeIndices :
              (last.n > 0 /\ last.msg = OutOfRangeLine(k)) =>
                  IF -n <= k /\ k < 0
                  THEN /\ last.raised = "none"
                       /\ writer = <<>>
                       /\ handler.episode_lengths[n + k] = 10
                       /\ handler.episode_rewards[n + k] = 30
                       /\ handler.episode_ious[n + k] = 0
                       /\ handler.episode_max_ious[n + k] = 8
                       /\ OtherSlotsKept(n + k)
                  ELSE /\ last.raised = IndexError
                       /\ writer = <<>>
                       /\ handler = last.before
        /\ \A x \in EpisodeInputs :
              (last.n > 0 /\ last.dup /\ last.msg = WellFormedLine(x)) =>
                  /\ last.raised = "none"
                  /\ handler.episode_rewards[x.i] = x.r.v
                  /\ OtherSlotsKept(x.i)
                  /\ IsBurst(writer) <=> x.i = n - 1

\* An index of eval_run_count has raised, after an index of -1 was stored
\* in the last slot, over the value the buffer was created with.
C16_Witness ==
    /\ last.n = 2
    /\ last.msg = OutOfRangeLine(eval_run_count)
    /\ last.raised = IndexError
    /\ last.before.episode_rewards[eval_run_count - 1] = 30
    /\ last.before.episode_rewards[0] # 30

\* C17: when the handler emits an aggregate burst in a round run by the
\* evaluation loop, every slot 0..eval_run_count-1 of the buffers has been
\* written by an episode of that round, slot k by episode k: none holds a
\* value of an earlier round or the value the buffer was created with.
C17_BuffersFullAtFlush ==
    (InRound /\ IsBurst(writer)) =>
        /\ trace.slots = 0..(handler.eval_run_count - 1)
        /\ Len(scores) = handler.eval_run_count
        /\ \A k \in trace.slots : handler.episode_rewards[k] = scores[k + 1].v
        /\ \A k \in trace.slots :
              handler.episode_lengths[k] \in {10 * l : l \in 0..(MaxVariety + 1)}

\* The burst of the second round of a run, one of whose episodes took two
\* steps: the slot held a length of 1 from the first round.
C17_Witness ==
    /\ InRound /\ IsBurst(writer)
    /\ trace.startT = 2
    /\ last.n >= 2 * eval_run_count
    /\ \E k \in trace.slots : handler.episode_lengths[k] = 20

\* C18: with max_episode_len an integer M >= 0, no environment step is taken
\* once the environment reported a terminal state or M steps were taken:
\* every episode ends with a length L <= M, at a terminal state or at L = M,
\* and a round takes at most n_episodes * M environment steps; with M = 0 it
\* takes none, and every episode is reported with length 0 and iou 0.0.
C18_EpisodesCappedAtMaxLen ==
    (InRound /\ max_episode_len # None) =>
        /\ max_episode_len >= 0
        /\ ~trace.late
        /\ pc = "while" => t <= max_episode_len
        /\ trace.steps <= n_episodes * max_episode_len
        /\ trace.steps <= Len(trace.lines) * max_episode_len + t
        /\ AfterEpisode =>
              /\ Reported(trace.line).length = Ok(t)
              /\ t <= max_episode_len
              /\ done \/ t = max_episode_len
        /\ max_episode_len = 0 =>
              /\ trace.steps = 0
              /\ trace.rewards = <<>>
              /\ AfterEpisode =>
                    /\ Search(EpisodePattern, trace.line).group[2] = <<"0">>
                    /\ Search(EpisodePattern, trace.line).group[4] = <<"0", ".", "0">>

\* A round with max_episode_len = 0 has returned one result per episode
\* without an environment step.
C18_Witness ==
    /\ pc = "returned"
    /\ max_episode_len = 0
    /\ n_episodes > 1
    /\ Len(scores) = n_episodes
    /\ trace.steps = 0

\* An episode stopped by the cap M = 1 at its first step, with no terminal
\* signal.
C18_CapReached ==
    /\ AfterEpisode
    /\ max_episode_len = 1
    /\ t = 1
    /\ ~done

=============================================================================
